---------------------------- MODULE Spec2Model ----------------------------
(***************************************************************************)
(* State-machine model of clio's resilience layer:                         *)
(*   - LoadBalancer (execute, forwardToRippled, shouldPropagateTxnStream)  *)
(*   - util::Retry with the exponential backoff strategy                   *)
(*   - web::dosguard::DOSGuard                                             *)
(* The three components share no state; each has its own specification.    *)
(***************************************************************************)
EXTENDS Integers, Sequences, FiniteSets, TLC

(***************************************************************************)
(* Bounds of the model.                                                    *)
(***************************************************************************)
\* largest pool size explored (sources_.size() ranges over 0..MaxSources)
MaxSources == 3
\* cap on LoadBalancer::execute's numAttempts counter
MaxAttempts == 7
\* largest configured delay explored, in units of 100 ms
MaxDelayCfg == 3
\* cap on the number of Retry::retry calls
MaxSchedules == 4
\* largest configured DOSGuard limit explored; the counters go one beyond it
MaxLimit == 2

VARIABLES
    \* ---- LoadBalancer ----
    nSources,     \* sources_.size(), fixed by the constructor
    hasLedger,    \* hasLedger[i]: what Source i answers to hasLedger(ledgerSequence)
    workerOk,     \* workerOk[i]: whether the worker f succeeds on Source i
    lbPc,         \* position of the caller inside execute / forwardToRippled
    sourceIdx,    \* local sourceIdx
    numAttempts,  \* local numAttempts
    startIdx,     \* the value rand() % sources_.size() produced for this call
    sleeps,       \* number of sleep_for(2s) performed by this call
    hasCalls,     \* number of hasLedger consultations made by this call
    workerCalls,  \* number of worker invocations made by this call
    lastWorker,   \* index of the Source of the last worker invocation, -1 if none
    retVal,       \* value returned by execute: "pending" until it returns
    connected,    \* connected[i]: what Source i answers to isConnected()
    fwdLog,       \* forwardToRippled calls made on Sources: <<index, non-empty?>>
    fwdRet,       \* forwardToRippled's result: -2 pending, -1 empty optional,
                  \* i >= 0 the result Source i gave
    txnIn,        \* argument of the last shouldPropagateTxnStream call, -1 if none
    txnRet,       \* what that call returned
    \* ---- util::Retry ----
    initialDelay, \* RetryStrategy::initialDelay_
    maxDelay,     \* ExponentialBackoffStrategy::maxDelay_
    delay,        \* RetryStrategy::delay_
    attemptNumber,\* Retry::attemptNumber_
    scheduled,    \* number of retry() calls made so far; the k-th call's
                  \* callback and timer wait are identified by k
    opState,      \* opState[k]: state of the k-th call's wait on timer_
    lastArmed,    \* the delay the last retry() call gave to expires_after, 0 if none
    sinceReset,   \* retry() calls since construction or the last reset()
    invokedSinceReset, \* callbacks invoked since construction or the last reset()
    lastOp,       \* the Retry operation or timer event that happened last
    cancelRequested, \* history: the waits with a handler still to run for
                     \* which cancel() has been called
    \* ---- web::dosguard::DOSGuard ----
    maxFetches,      \* maxFetches_
    maxConnCount,    \* maxConnCount_
    maxRequestCount, \* maxRequestCount_
    ipState,         \* ipState_: ip -> [transferedByte, requestsCount]
    ipConnCount,     \* ipConnCount_: ip -> number of connections
    taskPc,          \* taskPc[t]: where task t is inside add / request
    taskIp,          \* taskIp[t]: the ip of the call task t is inside
    gRet,            \* the last value a DOSGuard call returned: [op, ip, val]
    guardAborted,    \* an ASSERT of the guard failed: the process is gone
    seqRequests,     \* history: the request calls made one after the other with
                     \* nothing else done to the guard, -1 once something was
    netConn,         \* history: increment calls minus decrement calls
    taskOver         \* history: taskOver[t], the update of the call task t is
                     \* inside left its counter over the limit

\* state only execute reads or writes
execVars == <<hasLedger, workerOk, sleeps, hasCalls, workerCalls, lastWorker, retVal>>

\* state only forwardToRippled and shouldPropagateTxnStream read or write
poolVars == <<connected, fwdLog, fwdRet, txnIn, txnRet>>

lbVars == <<nSources, lbPc, sourceIdx, numAttempts, startIdx, execVars, poolVars>>

retryVars == <<initialDelay, maxDelay, delay, attemptNumber, scheduled, opState,
               lastArmed, sinceReset, invokedSinceReset, lastOp,
              cancelRequested>>

guardHistory == <<seqRequests, netConn, taskOver>>

guardVars == <<maxFetches, maxConnCount, maxRequestCount, ipState, ipConnCount,
               taskPc, taskIp, gRet, guardAborted, guardHistory>>

\* everything outside the LoadBalancer
nonLbVars == <<retryVars, guardVars>>

vars == <<lbVars, nonLbVars>>

Pool == 0 .. (nSources - 1)

\* the clients the model tells apart, and the whitelisted ones among them
IPs == {"a", "w"}

Whitelist == {"w"}

\* the tasks that call into the guard concurrently
Tasks == {1, 2}

\* a map without entries
EmptyMap == [x \in {} |-> 0]

NoRet == [op |-> "none", ip |-> "none", val |-> TRUE]

\* a DOSGuard that takes no part in the other components' specifications
GuardQuiet ==
    /\ maxFetches = 1
    /\ maxConnCount = 1
    /\ maxRequestCount = 1
    /\ ipState = EmptyMap
    /\ ipConnCount = EmptyMap
    /\ taskPc = [t \in Tasks |-> "idle"]
    /\ taskIp = [t \in Tasks |-> "none"]
    /\ gRet = NoRet
    /\ guardAborted = FALSE
    /\ seqRequests = 0
    /\ netConn = 0
    /\ taskOver = [t \in Tasks |-> FALSE]

\* a Retry that takes no part in the other components' specifications
RetryQuiet ==
    /\ initialDelay = 1
    /\ maxDelay = 1
    /\ delay = 1
    /\ attemptNumber = 0
    /\ scheduled = 0
    /\ opState = << >>
    /\ lastArmed = 0
    /\ sinceReset = 0
    /\ invokedSinceReset = 0
    /\ lastOp = "none"
    /\ cancelRequested = {}

(***************************************************************************)
(* LoadBalancer::execute                                                   *)
(***************************************************************************)
\* rand() % sources_.size(): any index of a non-empty pool
RandomIndex(size) == 0 .. (size - 1)

\* mutant of NextIndex: the index is not advanced
NextIndexStuck(idx, size) == idx

\* sourceIdx = (sourceIdx + 1) % sources_.size()
NextIndex(idx, size) == (idx + 1) % size

\* mutant of ExecuteLoopCondition: the loop gives up after one full pass
ExecuteLoopOnePass(attempts, size) == attempts < size

\* while (true)
ExecuteLoopCondition(attempts, size) == TRUE

\* a pass test that holds after every attempt
FullPassAfterEveryAttempt(attempts, size) == TRUE

\* if (numAttempts % sources_.size() == 0)
FullPassDone(attempts, size) == attempts % size = 0

\* return true
ExecuteReturnValue == "true"

\* construction: one Source per entry of etl_sources; the pool may be empty
LoadBalancerInit ==
    /\ nSources \in 0 .. MaxSources
    /\ lbPc = "idle"
    /\ sourceIdx = 0
    /\ numAttempts = 0
    /\ startIdx = 0
    /\ sleeps = 0
    /\ hasCalls = 0
    /\ workerCalls = 0
    /\ lastWorker = -1
    /\ retVal = "pending"
    /\ fwdLog = << >>
    /\ fwdRet = -2
    /\ txnIn = -1
    /\ txnRet = TRUE

\* a LoadBalancer that takes no part in the other components' specifications
LoadBalancerQuiet ==
    /\ LoadBalancerInit
    /\ nSources = 0
    /\ hasLedger = << >>
    /\ workerOk = << >>
    /\ connected = << >>

\* the Sources' own state, as execute observes it
SourcesInit ==
    /\ hasLedger \in [Pool -> BOOLEAN]
    /\ workerOk \in [Pool -> BOOLEAN]

\* A Source's background connection changes what it reports.  Sources stop
\* changing one full pass before the attempt cap, so that a run the cap cuts
\* short is never one in which the loop had a Source still to reach.
SourceUpdate ==
    /\ numAttempts + nSources <= MaxAttempts
    /\ \E i \in Pool :
        \/ /\ hasLedger' = [hasLedger EXCEPT ![i] = ~hasLedger[i]]
           /\ UNCHANGED workerOk
        \/ /\ workerOk' = [workerOk EXCEPT ![i] = ~workerOk[i]]
           /\ UNCHANGED hasLedger
    /\ UNCHANGED <<nSources, lbPc, sourceIdx, numAttempts, startIdx, sleeps,
                   hasCalls, workerCalls, lastWorker, retVal>>
    /\ UNCHANGED <<poolVars, nonLbVars>>

\* entry of execute: srand, sourceIdx = rand() % sources_.size(), numAttempts = 0.
\* With an empty pool the modulo is by zero: undefined behaviour, which either
\* traps or yields some index that sources_[sourceIdx] then reads out of bounds.
ExecuteStart ==
    /\ lbPc = "idle"
    /\ IF nSources = 0
         THEN /\ lbPc' \in {"ub_trap", "ub_oob"}
              /\ UNCHANGED <<sourceIdx, startIdx>>
         ELSE /\ \E s \in RandomIndex(nSources) :
                    /\ sourceIdx' = s
                    /\ startIdx' = s
              /\ lbPc' = "loop"
    /\ numAttempts' = 0
    /\ sleeps' = 0
    /\ hasCalls' = 0
    /\ workerCalls' = 0
    /\ lastWorker' = -1
    /\ retVal' = "pending"
    /\ UNCHANGED <<nSources, hasLedger, workerOk>>
    /\ UNCHANGED <<poolVars, nonLbVars>>

\* the tail of an unsuccessful iteration: advance, count, maybe go to sleep
ExecuteAdvance ==
    /\ sourceIdx' = NextIndex(sourceIdx, nSources)
    /\ numAttempts' = numAttempts + 1
    /\ lbPc' = IF FullPassDone(numAttempts + 1, nSources) THEN "sleep" ELSE "loop"
    /\ UNCHANGED retVal

\* leaving the loop: return true
ExecuteReturn ==
    /\ lbPc' = "done"
    /\ retVal' = ExecuteReturnValue
    /\ UNCHANGED <<sourceIdx, numAttempts>>

\* a ledger check that every Source passes
SourceHasLedgerAlways(i) == TRUE

\* sources_[sourceIdx]->hasLedger(ledgerSequence)
SourceHasLedger(i) == hasLedger[i]

\* one iteration of the while loop
ExecuteIter ==
    /\ lbPc = "loop"
    /\ numAttempts < MaxAttempts
    /\ IF ~ExecuteLoopCondition(numAttempts, nSources)
         THEN /\ ExecuteReturn
              /\ UNCHANGED <<hasCalls, workerCalls, lastWorker>>
         ELSE /\ hasCalls' = hasCalls + 1
              /\ IF SourceHasLedger(sourceIdx)
                   THEN /\ workerCalls' = workerCalls + 1
                        /\ lastWorker' = sourceIdx
                        /\ IF workerOk[sourceIdx]
                             THEN ExecuteReturn
                             ELSE ExecuteAdvance
                   ELSE /\ UNCHANGED <<workerCalls, lastWorker>>
                        /\ ExecuteAdvance
    /\ UNCHANGED <<nSources, hasLedger, workerOk, startIdx, sleeps>>
    /\ UNCHANGED <<poolVars, nonLbVars>>

\* std::this_thread::sleep_for(std::chrono::seconds(2)) returns
ExecuteWake ==
    /\ lbPc = "sleep"
    /\ sleeps' = sleeps + 1
    /\ lbPc' = "loop"
    /\ UNCHANGED <<nSources, hasLedger, workerOk, sourceIdx, numAttempts,
                   startIdx, hasCalls, workerCalls, lastWorker, retVal>>
    /\ UNCHANGED <<poolVars, nonLbVars>>

\* the caller (fetchLedger / loadInitialLedger) takes the result; the
\* LoadBalancer is ready for the next call
ExecuteFinish ==
    /\ lbPc = "done"
    /\ lbPc' = "idle"
    /\ UNCHANGED <<nSources, hasLedger, workerOk, sourceIdx, numAttempts,
                   startIdx, sleeps, hasCalls, workerCalls, lastWorker, retVal>>
    /\ UNCHANGED <<poolVars, nonLbVars>>

\* Sources whose connectivity and forwarding play no part in execute
SourcesQuiet == connected = [i \in Pool |-> FALSE]

InitExec ==
    LoadBalancerInit /\ SourcesInit /\ SourcesQuiet /\ RetryQuiet /\ GuardQuiet

NextExec ==
    \/ SourceUpdate
    \/ ExecuteStart
    \/ ExecuteIter
    \/ ExecuteWake
    \/ ExecuteFinish

SpecExec == InitExec /\ [][NextExec]_vars

\* the thread inside execute keeps running: an iteration is taken, a sleep ends
FairSpecExec == SpecExec /\ WF_vars(ExecuteIter) /\ WF_vars(ExecuteWake)

(***************************************************************************)
(* LoadBalancer::forwardToRippled                                          *)
(***************************************************************************)
\* mutant of ForwardLoopCondition: one attempt too many
ForwardLoopOneMore(attempts, size) == attempts <= size

\* while (numAttempts < sources_.size())
ForwardLoopCondition(attempts, size) == attempts < size

\* entry of forwardToRippled: srand, sourceIdx = rand() % sources_.size(),
\* numAttempts = 0; the same modulo by zero as in execute on an empty pool
ForwardStart ==
    /\ lbPc = "idle"
    /\ IF nSources = 0
         THEN /\ lbPc' \in {"ub_trap", "ub_oob"}
              /\ UNCHANGED <<sourceIdx, startIdx>>
         ELSE /\ \E s \in RandomIndex(nSources) :
                    /\ sourceIdx' = s
                    /\ startIdx' = s
              /\ lbPc' = "fwd"
    /\ numAttempts' = 0
    /\ fwdLog' = << >>
    /\ fwdRet' = -2
    /\ UNCHANGED <<nSources, execVars, connected, txnIn, txnRet, nonLbVars>>

\* One iteration of the loop: the Source at sourceIdx is asked to forward the
\* request and answers with a result or with an empty optional; a result is
\* returned at once, otherwise the index advances and the loop condition is
\* evaluated again, the function returning {} when it fails.
ForwardIter ==
    /\ lbPc = "fwd"
    /\ IF ~ForwardLoopCondition(numAttempts, nSources)
         THEN /\ lbPc' = "fwdDone"
              /\ fwdRet' = -1
              /\ UNCHANGED <<sourceIdx, numAttempts, fwdLog>>
         ELSE \E res \in BOOLEAN :
                /\ fwdLog' = Append(fwdLog, <<sourceIdx, res>>)
                /\ IF res
                     THEN /\ lbPc' = "fwdDone"
                          /\ fwdRet' = sourceIdx
                          /\ UNCHANGED <<sourceIdx, numAttempts>>
                     ELSE /\ sourceIdx' = (sourceIdx + 1) % nSources
                          /\ numAttempts' = numAttempts + 1
                          /\ IF ForwardLoopCondition(numAttempts + 1, nSources)
                               THEN /\ lbPc' = "fwd"
                                    /\ UNCHANGED fwdRet
                               ELSE /\ lbPc' = "fwdDone"
                                    /\ fwdRet' = -1
    /\ UNCHANGED <<nSources, startIdx, execVars, connected, txnIn, txnRet, nonLbVars>>

\* the caller takes the result
ForwardFinish ==
    /\ lbPc = "fwdDone"
    /\ lbPc' = "idle"
    /\ UNCHANGED <<nSources, sourceIdx, numAttempts, startIdx, execVars,
                   poolVars, nonLbVars>>

(***************************************************************************)
(* LoadBalancer::shouldPropagateTxnStream                                  *)
(***************************************************************************)
\* mutant of ScanSources: a disconnected Source ends the scan
ScanSourcesNoSkip(i, in) ==
    IF i >= nSources THEN TRUE ELSE i = in

\* for (auto& src : sources_) from position i on: the first connected Source
\* decides, by *src == *in (Sources are distinct, so equality is that of the
\* position); past the end the function returns true
RECURSIVE ScanSources(_, _)
ScanSources(i, in) ==
    IF i >= nSources THEN TRUE
    ELSE IF connected[i] THEN i = in
    ELSE ScanSources(i + 1, in)

shouldPropagateTxnStream(in) == ScanSources(0, in)

\* a Source's connection is established
SourceConnect ==
    /\ \E i \in Pool :
         /\ ~connected[i]
         /\ connected' = [connected EXCEPT ![i] = TRUE]
    /\ UNCHANGED <<nSources, lbPc, sourceIdx, numAttempts, startIdx, execVars,
                   fwdLog, fwdRet, txnIn, txnRet, nonLbVars>>

\* a Source's connection is lost
SourceDisconnect ==
    /\ \E i \in Pool :
         /\ connected[i]
         /\ connected' = [connected EXCEPT ![i] = FALSE]
    /\ UNCHANGED <<nSources, lbPc, sourceIdx, numAttempts, startIdx, execVars,
                   fwdLog, fwdRet, txnIn, txnRet, nonLbVars>>

\* a Source of the pool asks whether it is the one to propagate
TxnStreamQuery ==
    /\ \E in \in Pool :
         /\ txnIn' = in
         /\ txnRet' = shouldPropagateTxnStream(in)
    /\ UNCHANGED <<nSources, lbPc, sourceIdx, numAttempts, startIdx, execVars,
                   connected, fwdLog, fwdRet, nonLbVars>>

\* Sources whose ledgers play no part in forwarding and leader selection
SourcesNoLedger ==
    /\ hasLedger = [i \in Pool |-> FALSE]
    /\ workerOk = [i \in Pool |-> FALSE]

InitPool ==
    /\ LoadBalancerInit
    /\ SourcesNoLedger
    /\ connected \in [Pool -> BOOLEAN]
    /\ RetryQuiet
    /\ GuardQuiet

NextPool ==
    \/ ForwardStart
    \/ ForwardIter
    \/ ForwardFinish
    \/ SourceConnect
    \/ SourceDisconnect
    \/ TxnStreamQuery

SpecPool == InitPool /\ [][NextPool]_vars

(***************************************************************************)
(* Claims about LoadBalancer::execute                                      *)
(***************************************************************************)
\* Source i has the ledger and the worker succeeds on it
Good(i) == i \in Pool /\ hasLedger[i] /\ workerOk[i]

InExecute == lbPc \in {"loop", "sleep"}

\* C1: on a non-empty pool, if some Source from some point on has the ledger
\* and lets the worker succeed, every running execute call eventually returns
\* true; the iteration whose worker succeeds is the one that returns, and
\* after it the call consults no Source and invokes no worker any more.
C1_FailoverTerminatesWithSuccess ==
    /\ \A i \in 0 .. (MaxSources - 1) :
          (<>[]Good(i)) => (InExecute ~> (lbPc = "done" /\ retVal = "true"))
    /\ [][ /\ (lbPc = "loop" /\ Good(sourceIdx) /\ hasCalls' # hasCalls)
                => (lbPc' = "done" /\ retVal' = "true")
           /\ (lbPc = "done")
                => (hasCalls' = hasCalls /\ workerCalls' = workerCalls
                    /\ lbPc' \in {"done", "idle"}) ]_vars

\* C1 witness: a call that returned true after a full failed pass and a sleep
C1_Witness ==
    /\ lbPc = "done" /\ retVal = "true"
    /\ nSources >= 2 /\ numAttempts >= nSources /\ sleeps >= 1
    /\ workerCalls >= 1 /\ lastWorker = sourceIdx

\* C2: on a non-empty pool execute returns only in the step in which a worker
\* invocation succeeded, and then returns true; an iteration on a Source that
\* lacks the ledger or whose worker fails stays in the loop, with nothing
\* returned, and moves on to the next Source in wrap-around order.
C2_NoFailureReturn ==
    [][ /\ (lbPc' = "done" /\ lbPc # "done")
            => /\ lbPc = "loop" /\ Good(sourceIdx)
               /\ workerCalls' = workerCalls + 1 /\ lastWorker' = sourceIdx
               /\ retVal' = "true"
        /\ (lbPc = "loop" /\ ~Good(sourceIdx) /\ hasCalls' # hasCalls)
            => /\ lbPc' \in {"loop", "sleep"} /\ retVal' = "pending"
               /\ sourceIdx' = (sourceIdx + 1) % nSources
               /\ numAttempts' = numAttempts + 1
        /\ (lbPc = "sleep" /\ sleeps' # sleeps)
            => (lbPc' = "loop" /\ retVal' = "pending") ]_vars

\* C2 witness: two full passes have failed and the call is still in its loop
C2_Witness ==
    /\ lbPc = "loop" /\ retVal = "pending"
    /\ nSources >= 2 /\ numAttempts >= 2 * nSources /\ sleeps >= 2

\* C3: a call on an empty pool ends in a defined error: no modulo by zero, no
\* entry into the retry loop.
C3_EmptyPoolFailsFast == (nSources = 0) => (lbPc \in {"idle", "error"})

(***************************************************************************)
(* Claims about forwardToRippled and shouldPropagateTxnStream              *)
(***************************************************************************)
\* C4: on a pool of N >= 1 Sources, from every starting index, the forward
\* calls go to the Sources in wrap-around order from the start, at most N of
\* them and so each Source at most once; only the last call made can have
\* given a result; the function returns that result if there is one, and the
\* empty optional exactly when all N Sources were asked and gave none; no
\* hasLedger consultation and no sleep is made.
C4_ForwardTriesEachSourceOnce ==
    (lbPc \in {"fwd", "fwdDone"}) =>
        /\ Len(fwdLog) <= nSources
        /\ \A k \in 1 .. Len(fwdLog) :
              /\ fwdLog[k][1] = (startIdx + k - 1) % nSources
              /\ (k < Len(fwdLog)) => ~fwdLog[k][2]
        /\ \A j, k \in 1 .. Len(fwdLog) : (j # k) => (fwdLog[j][1] # fwdLog[k][1])
        /\ (lbPc = "fwd") =>
              /\ fwdRet = -2
              /\ Len(fwdLog) < nSources
              /\ \A k \in 1 .. Len(fwdLog) : ~fwdLog[k][2]
        /\ (lbPc = "fwdDone") =>
              /\ Len(fwdLog) >= 1
              /\ IF fwdLog[Len(fwdLog)][2]
                   THEN fwdRet = fwdLog[Len(fwdLog)][1]
                   ELSE fwdRet = -1 /\ Len(fwdLog) = nSources
        /\ hasCalls = 0 /\ sleeps = 0

\* C4 witness: a call that started at the last Source, wrapped around and got
\* its result from the last Source in the order
C4_Witness ==
    /\ lbPc = "fwdDone" /\ nSources = 3 /\ startIdx = 2
    /\ Len(fwdLog) = 3 /\ fwdRet = 1

\* the lowest-index connected Source, if there is one
IsFirstConnected(c) == connected[c] /\ \A j \in 0 .. (c - 1) : ~connected[j]

NoneConnected == \A j \in Pool : ~connected[j]

\* C5: whatever connect and disconnect events have happened,
\* shouldPropagateTxnStream(c) is true iff c is the lowest-index connected
\* Source or no Source is connected; so with a Source connected exactly one
\* Source gets true, a call returns that value, and when the leader
\* disconnects true goes to the next connected Source after it (to all, if
\* none is left).
C5_FirstConnectedPropagates ==
    /\ [] /\ \A c \in Pool :
                shouldPropagateTxnStream(c) <=> (NoneConnected \/ IsFirstConnected(c))
          /\ (~NoneConnected) =>
                Cardinality({c \in Pool : shouldPropagateTxnStream(c)}) = 1
    /\ [][ /\ (<<txnIn, txnRet>>' # <<txnIn, txnRet>>)
              => (txnRet' <=> (NoneConnected \/ IsFirstConnected(txnIn')))
           /\ \A l \in Pool :
                (IsFirstConnected(l) /\ ~connected'[l]) =>
                    \A c \in Pool :
                        shouldPropagateTxnStream(c)' <=>
                            \/ \A j \in Pool : ~connected'[j]
                            \/ /\ c > l /\ connected'[c]
                               /\ \A j \in (l + 1) .. (c - 1) : ~connected'[j] ]_vars

\* C5 witness: Source 0 is disconnected, Sources 1 and 2 are connected, and
\* Source 1 has just been told to propagate
C5_Witness ==
    /\ nSources = 3 /\ ~connected[0] /\ connected[1] /\ connected[2]
    /\ txnIn = 1 /\ txnRet

(***************************************************************************)
(* util::Retry with ExponentialBackoffStrategy.  Delays are in units of    *)
(* 100 ms.  Only Retry::retry is defined in Retry.hpp; the strategy's       *)
(* member functions, Retry::cancel and Retry::reset are declared there and  *)
(* modelled from their documented contract.  timer_ is a                    *)
(* boost::asio::steady_timer on a strand: the operations and the completion *)
(* handlers run one at a time.  The wait started by the k-th retry() call   *)
(* is in one of these states:                                               *)
(*   "waiting"    the timer has not expired                                 *)
(*   "expired"    the timer expired; the handler is queued with success     *)
(*   "cancelled"  cancel() ended the wait; queued with operation_aborted    *)
(*   "replaced"   a later expires_after ended the wait; queued likewise     *)
(*   "invoked"    the handler ran and invoked the callback                  *)
(*   "dropped"    the handler ran with operation_aborted and returned       *)
(***************************************************************************)
Min(a, b) == IF a <= b THEN a ELSE b

\* RetryStrategy::getDelay
getDelay == delay

\* ExponentialBackoffStrategy::nextDelay
nextDelay == Min(getDelay * 2, maxDelay)

\* mutant of TimerSetExpiry: the waits already outstanding are left alone
TimerSetExpiryKeepsWaits(ops) == ops

\* steady_timer::expires_after: every outstanding wait is ended with
\* operation_aborted; a handler already queued is not touched
TimerSetExpiry(ops) ==
    [k \in DOMAIN ops |-> IF ops[k] = "waiting" THEN "replaced" ELSE ops[k]]

\* mutant of TimerCancel: nothing is cancelled
TimerCancelNothing(ops) == ops

\* steady_timer::cancel: every outstanding wait is ended with
\* operation_aborted; a handler already queued is not touched
TimerCancel(ops) ==
    [k \in DOMAIN ops |-> IF ops[k] = "waiting" THEN "cancelled" ELSE ops[k]]

\* mutant of ArmedDelay: the delay is advanced before the timer is armed
ArmedDelayAfterIncrease == nextDelay

\* the argument of timer_.expires_after in Retry::retry
ArmedDelay == getDelay

\* mutant of NextAttemptNumber: the attempt is not counted
NextAttemptNumberSame(n) == n

\* ++attemptNumber_
NextAttemptNumber(n) == n + 1

\* mutant of HandlerInvokes: the error code is ignored
HandlerInvokesAlways(st) == TRUE

\* the completion handler's test: ec == operation_aborted returns at once
HandlerInvokes(st) == st = "expired"

\* makeRetryExponentialBackoff(delay, maxDelay, strand); the configured
\* delay does not exceed the configured maximum
RetryInit ==
    /\ \E cfg \in {c \in (1 .. MaxDelayCfg) \X (1 .. MaxDelayCfg) : c[1] <= c[2]} :
          /\ initialDelay = cfg[1]
          /\ maxDelay = cfg[2]
          /\ delay = cfg[1]
    /\ attemptNumber = 0
    /\ scheduled = 0
    /\ opState = << >>
    /\ lastArmed = 0
    /\ sinceReset = 0
    /\ invokedSinceReset = 0
    /\ lastOp = "none"
    /\ cancelRequested = {}

\* a retry that doubles the delay itself, without the strategy's cap
DelayAfterRetryDoubled == getDelay * 2

\* strategy_->increaseDelay() in Retry::retry: the delay becomes nextDelay()
DelayAfterRetry == nextDelay

\* Retry::retry(func)
RetrySchedule ==
    /\ scheduled < MaxSchedules
    /\ lastArmed' = ArmedDelay
    /\ delay' = DelayAfterRetry
    /\ opState' = Append(TimerSetExpiry(opState), "waiting")
    /\ scheduled' = scheduled + 1
    /\ sinceReset' = sinceReset + 1
    /\ lastOp' = "retry"
    /\ UNCHANGED <<initialDelay, maxDelay, attemptNumber, invokedSinceReset,
                   cancelRequested, lbVars, guardVars>>

\* the timer reaches its expiry time: the outstanding wait completes with
\* success and its handler is queued on the strand
TimerExpire ==
    /\ \E k \in DOMAIN opState :
          /\ opState[k] = "waiting"
          /\ opState' = [opState EXCEPT ![k] = "expired"]
    /\ lastOp' = "expire"
    /\ UNCHANGED <<initialDelay, maxDelay, delay, attemptNumber, scheduled, lastArmed,
                   sinceReset, invokedSinceReset, cancelRequested, lbVars, guardVars>>

\* the strand runs a queued completion handler (the lambda in Retry::retry)
HandlerRun ==
    /\ \E k \in DOMAIN opState :
          /\ opState[k] \in {"expired", "cancelled", "replaced"}
          /\ IF HandlerInvokes(opState[k])
               THEN /\ attemptNumber' = NextAttemptNumber(attemptNumber)
                    /\ invokedSinceReset' = invokedSinceReset + 1
                    /\ opState' = [opState EXCEPT ![k] = "invoked"]
               ELSE /\ opState' = [opState EXCEPT ![k] = "dropped"]
                    /\ UNCHANGED <<attemptNumber, invokedSinceReset>>
          /\ cancelRequested' = cancelRequested \ {k}
    /\ lastOp' = "handler"
    /\ UNCHANGED <<initialDelay, maxDelay, delay, scheduled, lastArmed, sinceReset,
                   lbVars, guardVars>>

\* Retry::cancel
RetryCancel ==
    /\ opState' = TimerCancel(opState)
    /\ lastOp' = "cancel"
    /\ cancelRequested' = cancelRequested \cup
           {k \in DOMAIN opState : opState[k] \in {"waiting", "expired"}}
    /\ UNCHANGED <<initialDelay, maxDelay, delay, attemptNumber, scheduled, lastArmed,
                   sinceReset, invokedSinceReset, lbVars, guardVars>>

\* Retry::reset
RetryReset ==
    /\ attemptNumber' = 0
    /\ delay' = initialDelay
    /\ sinceReset' = 0
    /\ invokedSinceReset' = 0
    /\ lastOp' = "reset"
    /\ UNCHANGED <<initialDelay, maxDelay, scheduled, opState, lastArmed,
                   cancelRequested, lbVars, guardVars>>

\* RetryStrategy::getDelay called on the strategy: a const member function
StrategyGetDelay ==
    /\ lastOp' = "getDelay"
    /\ UNCHANGED <<initialDelay, maxDelay, delay, attemptNumber, scheduled, opState,
                   lastArmed, sinceReset, invokedSinceReset, cancelRequested, lbVars, guardVars>>

\* RetryStrategy::increaseDelay called on the strategy
StrategyIncreaseDelay ==
    /\ delay' = nextDelay
    /\ lastOp' = "increaseDelay"
    /\ UNCHANGED <<initialDelay, maxDelay, attemptNumber, scheduled, opState, lastArmed,
                   sinceReset, invokedSinceReset, cancelRequested, lbVars, guardVars>>

\* a strategy constructed from any pair of delays: the delay starts at the
\* initial delay, whatever the maximum is
StrategyInit ==
    /\ initialDelay \in 1 .. MaxDelayCfg
    /\ maxDelay \in 1 .. MaxDelayCfg
    /\ delay = initialDelay
    /\ attemptNumber = 0
    /\ scheduled = 0
    /\ opState = << >>
    /\ lastArmed = 0
    /\ sinceReset = 0
    /\ invokedSinceReset = 0
    /\ lastOp = "none"
    /\ cancelRequested = {}

InitStrategy == LoadBalancerQuiet /\ StrategyInit /\ GuardQuiet

\* the strategy on its own and under a Retry whose timer never expires
NextStrategy ==
    \/ StrategyGetDelay
    \/ StrategyIncreaseDelay
    \/ RetrySchedule
    \/ RetryReset

SpecStrategy == InitStrategy /\ [][NextStrategy]_vars

InitRetry == LoadBalancerQuiet /\ RetryInit /\ GuardQuiet

NextRetry ==
    \/ RetrySchedule
    \/ TimerExpire
    \/ HandlerRun
    \/ RetryCancel
    \/ RetryReset

SpecRetry == InitRetry /\ [][NextRetry]_vars

(***************************************************************************)
(* Claims about Retry                                                      *)
(***************************************************************************)
RECURSIVE Pow2(_)
Pow2(n) == IF n = 0 THEN 1 ELSE 2 * Pow2(n - 1)

Ops == DOMAIN opState

C7_CancelBeforeFire ==
    [][ /\ (lastOp' = "cancel") =>
              /\ Ops' = Ops
              /\ \A k \in Ops :
                    opState'[k] = IF opState[k] = "waiting" THEN "cancelled"
                                  ELSE opState[k]
              /\ UNCHANGED <<delay, attemptNumber, scheduled, lastArmed,
                             sinceReset, invokedSinceReset>>
        /\ \A k \in Ops :
              /\ (opState[k] = "cancelled") =>
                    /\ opState'[k] \in {"cancelled", "dropped"}
                    /\ (opState'[k] = "dropped") =>
                          UNCHANGED <<attemptNumber, invokedSinceReset>>
              /\ (opState[k] = "dropped") => (opState'[k] = "dropped") ]_vars

\* C7 witness: a wait was cancelled and its handler has run; no attempt was
\* counted, and cancel() has just been called again
C7_Witness ==
    /\ scheduled = 1 /\ opState[1] = "dropped" /\ sinceReset = 1
    /\ attemptNumber = 0 /\ lastOp = "cancel"

\* C8: at most one wait is outstanding, that of the last retry() call; a
\* retry() call made while a wait is outstanding ends it, its handler
\* returns without invoking the callback or counting an attempt; a callback
\* is invoked at most once, with one attempt counted, so with no reset()
\* attemptNumber is the number of callbacks invoked.
C8_OnePendingRetry ==
    /\ [] /\ \A k \in Ops : (opState[k] = "waiting") => (k = scheduled)
          /\ (sinceReset = scheduled) =>
                attemptNumber = Cardinality({k \in Ops : opState[k] = "invoked"})
    /\ [][ /\ (scheduled' = scheduled + 1) =>
                  \A k \in Ops : (opState[k] = "waiting") => (opState'[k] = "replaced")
           /\ \A k \in Ops :
                 /\ (opState[k] = "replaced") =>
                       /\ opState'[k] \in {"replaced", "dropped"}
                       /\ (opState'[k] = "dropped") =>
                             UNCHANGED <<attemptNumber, invokedSinceReset>>
                 /\ (opState[k] = "invoked") => (opState'[k] = "invoked")
                 /\ (opState[k] # "invoked" /\ opState'[k] = "invoked") =>
                       (attemptNumber' = attemptNumber + 1) ]_vars

\* C8 witness: two calls, the second while the first wait was outstanding;
\* the first handler returned, the second callback ran, one attempt counted
C8_Witness ==
    /\ scheduled = 2 /\ sinceReset = 2
    /\ opState = <<"dropped", "invoked">> /\ attemptNumber = 1

\* C9: reset() sets the delay to initialDelay and attemptNumber to 0 and
\* leaves the timer's waits as they are; attemptNumber changes only by +1,
\* in the step in which the handler of an expired wait invokes the callback,
\* and to 0 on reset(); so it is the number of callbacks invoked since the
\* last reset() and only reset() lowers it.
C9_ResetAndAttemptNumber ==
    /\ [](attemptNumber = invokedSinceReset)
    /\ [][ /\ (lastOp' = "reset") =>
                  /\ delay' = initialDelay /\ attemptNumber' = 0
                  /\ opState' = opState
           /\ (attemptNumber' # attemptNumber) =>
                  \/ /\ attemptNumber' = attemptNumber + 1
                     /\ lastOp' = "handler"
                     /\ \E k \in Ops : opState[k] = "expired" /\ opState'[k] = "invoked"
                  \/ /\ attemptNumber' = 0
                     /\ lastOp' = "reset" ]_vars

\* C9 witness: a reset() came while a wait was outstanding; the callback of
\* that wait ran afterwards and is the one attempt counted
C9_Witness ==
    /\ scheduled = 2 /\ sinceReset = 0 /\ attemptNumber = 1
    /\ opState = <<"invoked", "invoked">> /\ delay = initialDelay

-----------------------------------------------------------------------------
\* web::dosguard::DOSGuard.  ipState_ and ipConnCount_ are maps keyed by ip:
\* a function whose domain is the set of ips that have an entry.  A call of
\* add or request is two critical sections (the update, then isOk), so a
\* task is between them in taskPc "add" or "request"; isOk, increment,
\* decrement and clear are one critical section each.

\* std::unordered_map::operator[] followed by an assignment
MapPut(m, k, v) == [x \in (DOMAIN m) \cup {k} |-> IF x = k THEN v ELSE m[x]]

\* an erase that leaves an entry of zero behind
MapEraseKeepsZero(m, k) == MapPut(m, k, 0)

\* std::unordered_map::erase
MapErase(m, k) == [x \in (DOMAIN m) \ {k} |-> m[x]]

\* a value-initialised ClientState
NewClientState == [transferedByte |-> 0, requestsCount |-> 0]

\* ipState_[ip]: the entry, created with zeros when there is none
ClientStateAt(ip) == IF ip \in DOMAIN ipState THEN ipState[ip] ELSE NewClientState

\* ipConnCount_[ip]: the entry, created with zero when there is none
ConnCountAt(ip) == IF ip \in DOMAIN ipConnCount THEN ipConnCount[ip] ELSE 0

\* a whitelist check that lets nobody through
isWhiteListedNobody(ip) == FALSE

\* DOSGuard::isWhiteListed
isWhiteListed(ip) == ip \in Whitelist

\* the comparison of a counter with its limit, not strict
OverLimitNotStrict(count, limit) == count >= limit

\* the comparison of a counter with its limit in isOk
OverLimit(count, limit) == count > limit

\* DOSGuard::isOk
isOk(ip) ==
    IF isWhiteListed(ip) THEN TRUE
    ELSE IF /\ ip \in DOMAIN ipState
            /\ \/ OverLimit(ipState[ip].transferedByte, maxFetches)
               \/ OverLimit(ipState[ip].requestsCount, maxRequestCount)
         THEN FALSE
    ELSE IF ip \in DOMAIN ipConnCount /\ OverLimit(ipConnCount[ip], maxConnCount)
         THEN FALSE
    ELSE TRUE

\* the constructor: the three limits come from the configuration, the maps
\* are empty
GuardInit ==
    /\ maxFetches \in 1 .. MaxLimit
    /\ maxConnCount \in 1 .. MaxLimit
    /\ maxRequestCount \in 1 .. MaxLimit
    /\ ipState = EmptyMap
    /\ ipConnCount = EmptyMap
    /\ taskPc = [t \in Tasks |-> "idle"]
    /\ taskIp = [t \in Tasks |-> "none"]
    /\ gRet = NoRet
    /\ guardAborted = FALSE
    /\ seqRequests = 0
    /\ netConn = 0
    /\ taskOver = [t \in Tasks |-> FALSE]

\* a call of isOk by task t
isOkCall(t, ip) ==
    /\ ~guardAborted /\ taskPc[t] = "idle"
    /\ gRet' = [op |-> "isOk", ip |-> ip, val |-> isOk(ip)]
    /\ UNCHANGED <<maxFetches, maxConnCount, maxRequestCount, ipState, ipConnCount,
                   taskPc, taskIp, guardAborted, guardHistory, lbVars, retryVars>>

\* DOSGuard::increment
increment(ip) ==
    /\ ~guardAborted
    /\ ConnCountAt(ip) <= MaxLimit
    /\ IF isWhiteListed(ip)
       THEN UNCHANGED <<ipConnCount, seqRequests, netConn>>
       ELSE /\ ipConnCount' = MapPut(ipConnCount, ip, ConnCountAt(ip) + 1)
            /\ netConn' = netConn + 1
            /\ seqRequests' = -1
    /\ UNCHANGED <<maxFetches, maxConnCount, maxRequestCount, ipState,
                   taskPc, taskIp, gRet, guardAborted, taskOver, lbVars, retryVars>>

\* the condition of an ASSERT that is not evaluated
AssertSkipped(cond) == TRUE

\* ASSERT(cond, ...): the call goes on when the condition holds
AssertHolds(cond) == cond

\* DOSGuard::decrement; operator[] inside the ASSERT creates the entry, and
\* a failed ASSERT ends the process
decrement(ip) ==
    /\ ~guardAborted
    /\ IF isWhiteListed(ip)
       THEN UNCHANGED <<ipConnCount, guardAborted, seqRequests, netConn>>
       ELSE /\ IF AssertHolds(ConnCountAt(ip) > 0)
               THEN /\ ipConnCount' = IF ConnCountAt(ip) - 1 = 0
                                      THEN MapErase(ipConnCount, ip)
                                      ELSE MapPut(ipConnCount, ip, ConnCountAt(ip) - 1)
                    /\ UNCHANGED guardAborted
               ELSE /\ ipConnCount' = MapPut(ipConnCount, ip, 0)
                    /\ guardAborted' = TRUE
            /\ netConn' = netConn - 1
            /\ seqRequests' = -1
    /\ UNCHANGED <<maxFetches, maxConnCount, maxRequestCount, ipState,
                   taskPc, taskIp, gRet, taskOver, lbVars, retryVars>>

\* DOSGuard::add up to the end of its critical section; a whitelisted ip
\* returns true at once
add(t, ip, numObjects) ==
    /\ ~guardAborted /\ taskPc[t] = "idle"
    /\ ClientStateAt(ip).transferedByte + numObjects <= MaxLimit + 1
    /\ IF isWhiteListed(ip)
       THEN /\ gRet' = [op |-> "add", ip |-> ip, val |-> TRUE]
            /\ UNCHANGED <<ipState, taskPc, taskIp, seqRequests, taskOver>>
       ELSE /\ ipState' = MapPut(ipState, ip,
                              [ClientStateAt(ip) EXCEPT
                                  !.transferedByte = @ + numObjects])
            /\ taskPc' = [taskPc EXCEPT ![t] = "add"]
            /\ taskIp' = [taskIp EXCEPT ![t] = ip]
            /\ taskOver' = [taskOver EXCEPT ![t] =
                              ClientStateAt(ip).transferedByte + numObjects > maxFetches]
            /\ seqRequests' = -1
            /\ UNCHANGED gRet
    /\ UNCHANGED <<maxFetches, maxConnCount, maxRequestCount, ipConnCount,
                   guardAborted, netConn, lbVars, retryVars>>

\* a requestsCount++ that counts nothing
NextRequestsCountSame(n) == n

\* ipState_[ip].requestsCount++
NextRequestsCount(n) == n + 1

\* DOSGuard::request up to the end of its critical section
request(t, ip) ==
    /\ ~guardAborted /\ taskPc[t] = "idle"
    /\ ClientStateAt(ip).requestsCount <= MaxLimit
    /\ IF isWhiteListed(ip)
       THEN /\ gRet' = [op |-> "request", ip |-> ip, val |-> TRUE]
            /\ UNCHANGED <<ipState, taskPc, taskIp, seqRequests, taskOver>>
       ELSE /\ ipState' = MapPut(ipState, ip,
                              [ClientStateAt(ip) EXCEPT
                                  !.requestsCount = NextRequestsCount(@)])
            /\ taskPc' = [taskPc EXCEPT ![t] = "request"]
            /\ taskIp' = [taskIp EXCEPT ![t] = ip]
            /\ taskOver' = [taskOver EXCEPT ![t] =
                              NextRequestsCount(ClientStateAt(ip).requestsCount)
                                  > maxRequestCount]
            /\ seqRequests' = IF seqRequests >= 0 /\ \A u \in Tasks : taskPc[u] = "idle"
                              THEN seqRequests + 1
                              ELSE -1
            /\ UNCHANGED gRet
    /\ UNCHANGED <<maxFetches, maxConnCount, maxRequestCount, ipConnCount,
                   guardAborted, netConn, lbVars, retryVars>>

\* the return isOk(ip) that ends add and request
returnIsOk(t) ==
    /\ ~guardAborted /\ taskPc[t] \in {"add", "request"}
    /\ gRet' = [op |-> taskPc[t], ip |-> taskIp[t], val |-> isOk(taskIp[t])]
    /\ taskPc' = [taskPc EXCEPT ![t] = "idle"]
    /\ taskIp' = [taskIp EXCEPT ![t] = "none"]
    /\ taskOver' = [taskOver EXCEPT ![t] = FALSE]
    /\ UNCHANGED <<maxFetches, maxConnCount, maxRequestCount, ipState, ipConnCount,
                   guardAborted, seqRequests, netConn, lbVars, retryVars>>

\* a clear that zeroes the byte counters only
ClearBytesOnly(m) == [ip \in DOMAIN m |-> [m[ip] EXCEPT !.transferedByte = 0]]

\* ipState_.clear()
ClearIpState(m) == EmptyMap

\* DOSGuard::clear
clear ==
    /\ ~guardAborted
    /\ ipState' = ClearIpState(ipState)
    /\ seqRequests' = -1
    /\ UNCHANGED <<maxFetches, maxConnCount, maxRequestCount, ipConnCount,
                   taskPc, taskIp, gRet, guardAborted, netConn, taskOver,
                   lbVars, retryVars>>

InitGuard == LoadBalancerQuiet /\ RetryQuiet /\ GuardInit

NextGuard ==
    \/ \E t \in Tasks, ip \in IPs : isOkCall(t, ip)
    \/ \E ip \in IPs : increment(ip)
    \/ \E ip \in IPs : decrement(ip)
    \/ \E t \in Tasks, ip \in IPs, numObjects \in {1, 2} : add(t, ip, numObjects)
    \/ \E t \in Tasks, ip \in IPs : request(t, ip)
    \/ \E t \in Tasks : returnIsOk(t)
    \/ clear

SpecGuard == InitGuard /\ [][NextGuard]_vars

-----------------------------------------------------------------------------
\* Claims about DOSGuard (specification SpecGuard)

\* what the three counters of an ip are, an ip without entry counting as zero
BytesOf(ip) == IF ip \in DOMAIN ipState THEN ipState[ip].transferedByte ELSE 0

RequestsOf(ip) == IF ip \in DOMAIN ipState THEN ipState[ip].requestsCount ELSE 0

ConnectionsOf(ip) == IF ip \in DOMAIN ipConnCount THEN ipConnCount[ip] ELSE 0

Rejected(ip) ==
    \/ BytesOf(ip) > maxFetches
    \/ RequestsOf(ip) > maxRequestCount
    \/ ConnectionsOf(ip) > maxConnCount

\* C10: for an ip that is not whitelisted, isOk is false exactly when the
\* bytes exceed maxFetches or the requests exceed maxRequestCount or the
\* connections exceed maxConnCount, an ip without entry counting as zero on
\* all three and a counter equal to its limit still being allowed; a call of
\* isOk returns that value and changes neither map.
C10_IsOkThresholds ==
    /\ [](\A ip \in IPs \ Whitelist : isOk(ip) = ~Rejected(ip))
    /\ [][(gRet' # gRet /\ gRet'.op = "isOk" /\ gRet'.ip \notin Whitelist) =>
              /\ gRet'.val = ~Rejected(gRet'.ip)
              /\ ipState' = ipState /\ ipConnCount' = ipConnCount]_vars

\* C10 witness: isOk returned false for an ip whose connections alone are
\* over the limit (no entry in ipState_), and the limit itself was allowed
C10_Witness ==
    /\ gRet = [op |-> "isOk", ip |-> "a", val |-> FALSE]
    /\ "a" \notin DOMAIN ipState
    /\ ConnectionsOf("a") = maxConnCount + 1

\* some task's call of request returns in this step
RequestReturns == \E t \in Tasks : taskPc[t] = "request" /\ taskPc'[t] = "idle"

\* C11: with maxRequestCount = M, of the request calls made for a
\* non-whitelisted ip one after the other on a fresh guard, with nothing else
\* done to the guard and no clear, the k-th returns true when k <= M and
\* false when k > M.
C11_KthRequest ==
    [][(RequestReturns /\ seqRequests >= 0) =>
          /\ gRet'.op = "request" /\ gRet'.ip \notin Whitelist
          /\ gRet'.val = (seqRequests <= maxRequestCount)]_vars

\* C11 witness: the call after the M-th has just returned false
C11_Witness ==
    /\ seqRequests = maxRequestCount + 1
    /\ gRet = [op |-> "request", ip |-> "a", val |-> FALSE]
    /\ \A t \in Tasks : taskPc[t] = "idle"

\* C12: a whitelisted ip never has an entry in ipState_ or in ipConnCount_,
\* isOk holds for it, every isOk, add and request call made for it returned
\* true, and such a call changes nothing of the guard.
C12_WhitelistBypass ==
    /\ [](\A ip \in Whitelist :
             /\ ip \notin DOMAIN ipState /\ ip \notin DOMAIN ipConnCount
             /\ isOk(ip)
             /\ (gRet.ip = ip => gRet.val = TRUE))
    /\ [][(gRet' # gRet /\ gRet'.ip \in Whitelist) =>
              UNCHANGED <<maxFetches, maxConnCount, maxRequestCount, ipState,
                          ipConnCount, taskPc, taskIp, guardAborted>>]_vars

\* C12 witness: add for the whitelisted ip returned true while the guard
\* holds counters over the limit for the other ip and rejects it
C12_Witness ==
    /\ gRet = [op |-> "add", ip |-> "w", val |-> TRUE]
    /\ ~isOk("a") /\ BytesOf("a") > maxFetches /\ ConnectionsOf("a") > maxConnCount

\* C13: as long as no decrement was called at count zero, the connection
\* count of a non-whitelisted ip is the number of increment calls minus the
\* number of decrement calls, the ip has no entry when that number is zero,
\* and no entry of ipConnCount_ holds a value of zero or less.
C13_ConnectionCount ==
    ~guardAborted =>
        /\ \A ip \in IPs \ Whitelist :
              /\ ConnectionsOf(ip) = netConn
              /\ (netConn = 0 => ip \notin DOMAIN ipConnCount)
        /\ \A ip \in DOMAIN ipConnCount : ipConnCount[ip] > 0

\* C13 witness: isOk rejected the ip for its connections alone (the other
\* counters are within their limits and were so then), and the decrement
\* calls since have brought the count to zero and removed the entry
C13_Witness ==
    /\ gRet = [op |-> "isOk", ip |-> "a", val |-> FALSE]
    /\ \A t \in Tasks : taskPc[t] = "idle"
    /\ RequestsOf("a") = 1 /\ BytesOf("a") = 0
    /\ netConn = 0 /\ "a" \notin DOMAIN ipConnCount /\ ~guardAborted

\* a step that changes ipState_ and is not the update of add or request:
\* a clear that found entries
ClearStep == ipState' # ipState /\ taskPc' = taskPc

\* C14: clear removes every entry of ipState_ and leaves ipConnCount_ as it
\* is; right after it isOk holds for a non-whitelisted ip exactly when its
\* connection count does not exceed maxConnCount, whatever its byte and
\* request counters were.
C14_ClearFrame ==
    [][ClearStep =>
          /\ ipState' = EmptyMap
          /\ ipConnCount' = ipConnCount
          /\ \A ip \in IPs \ Whitelist :
                /\ BytesOf(ip)' = 0 /\ RequestsOf(ip)' = 0
                /\ isOk(ip)' = ~(ConnectionsOf(ip) > maxConnCount)]_vars

\* C14 witness: a request call returned false, a clear has emptied ipState_
\* since, and the ip, whose connections are at the limit, is allowed again
C14_Witness ==
    /\ gRet = [op |-> "request", ip |-> "a", val |-> FALSE]
    /\ \A t \in Tasks : taskPc[t] = "idle"
    /\ ipState = EmptyMap
    /\ ConnectionsOf("a") = maxConnCount /\ isOk("a")

\* C15: a decrement for a non-whitelisted ip whose connection count is zero
\* or absent fails its assertion: the step ends the process instead of
\* completing, nothing runs afterwards, and no stored count is ever negative
\* or wrapped around to a huge value.
C15_DisconnectAtZeroAsserts ==
    /\ [](\A ip \in DOMAIN ipConnCount :
              ipConnCount[ip] >= 0 /\ ipConnCount[ip] <= MaxLimit + 1)
    /\ [](netConn < 0 => guardAborted)
    /\ [][/\ \A ip \in IPs \ Whitelist :
                (netConn' < netConn /\ ConnectionsOf(ip) = 0) =>
                    guardAborted' /\ ConnectionsOf(ip)' = 0
          /\ ~guardAborted]_vars

\* C15 witness: isOk had rejected the ip for its connections, the decrement
\* calls since brought the count to zero, and one more ended the process
C15_Witness ==
    /\ guardAborted /\ netConn = -1 /\ ConnectionsOf("a") = 0
    /\ gRet = [op |-> "isOk", ip |-> "a", val |-> FALSE]
    /\ BytesOf("a") = 0 /\ RequestsOf("a") = 1

-----------------------------------------------------------------------------
\* Further claims about execute (specifications SpecExec and FairSpecExec)

\* C16: inside execute on a pool of N Sources the consultations go round the
\* pool in wrap-around order from the starting index; the call goes to sleep
\* exactly in the unsuccessful attempts that bring the attempt counter to a
\* multiple of N, so it has slept once for every full pass made (the sleep
\* after the last full pass being under way while it sleeps), never in the
\* middle of a pass, and the next pass starts only when the sleep is over.
C16_SleepAfterEachFullPass ==
    /\ []((lbPc \in {"loop", "sleep", "done"}) =>
            /\ sourceIdx = (startIdx + numAttempts) % nSources
            /\ hasCalls = numAttempts + (IF lbPc = "done" THEN 1 ELSE 0)
            /\ (lbPc = "sleep") =>
                  /\ numAttempts > 0 /\ numAttempts % nSources = 0
                  /\ sleeps = (numAttempts \div nSources) - 1
            /\ (lbPc # "sleep") => sleeps = numAttempts \div nSources)
    /\ [][/\ (lbPc = "loop" /\ numAttempts' = numAttempts + 1) =>
                (lbPc' = "sleep") = (numAttempts' % nSources = 0)
          /\ (lbPc' = "sleep" /\ lbPc # "sleep") =>
                (lbPc = "loop" /\ numAttempts' = numAttempts + 1)
          /\ (lbPc = "sleep") =>
                (hasCalls' = hasCalls /\ numAttempts' = numAttempts)
          /\ (sleeps' # sleeps /\ lbPc # "idle") =>
                (lbPc = "sleep" /\ sleeps' = sleeps + 1)]_vars

\* C16 witness: on three Sources two full passes have failed, each followed
\* by a sleep, and the third pass is about to start where the first did
C16_Witness ==
    /\ lbPc = "loop" /\ nSources = 3
    /\ numAttempts = 6 /\ sleeps = 2 /\ sourceIdx = startIdx

\* Source x is the only one that has the ledger, and the worker succeeds on it
OnlySource(x) ==
    /\ x \in Pool /\ hasLedger[x] /\ workerOk[x]
    /\ \A i \in Pool \ {x} : ~hasLedger[i]

\* C17: when one Source x alone has the ledger throughout and the worker
\* succeeds on it, a call of execute, from whatever starting index, consults
\* at most N Sources, never sleeps, invokes the worker once, on x, and returns
\* true; and in no run is the worker invoked in an iteration whose hasLedger
\* consultation said no.
C17_OnlyOneSourceHasLedger ==
    /\ \A x \in 0 .. (MaxSources - 1) :
          ([]OnlySource(x)) =>
              /\ []((lbPc \in {"loop", "sleep", "done"}) =>
                       /\ hasCalls <= nSources /\ sleeps = 0 /\ lbPc # "sleep"
                       /\ workerCalls <= 1
                       /\ (workerCalls = 1) => (lastWorker = x /\ lbPc = "done")
                       /\ (lbPc = "done") => (retVal = "true" /\ workerCalls = 1))
              /\ (InExecute ~> (lbPc = "done" /\ retVal = "true"))
    /\ [][(workerCalls' = workerCalls + 1) =>
              (hasLedger[sourceIdx] /\ lastWorker' = sourceIdx)]_vars

\* C17 witness: three Sources of which only the second has the ledger; the
\* call started at the third, consulted all three and returned true with the
\* worker run once, on the second
C17_Witness ==
    /\ lbPc = "done" /\ retVal = "true" /\ nSources = 3
    /\ hasLedger = [i \in 0 .. 2 |-> i = 1] /\ workerOk[1]
    /\ startIdx = 2 /\ hasCalls = 3 /\ sleeps = 0
    /\ workerCalls = 1 /\ lastWorker = 1

-----------------------------------------------------------------------------
\* Further claims about Retry (specification SpecRetry)

\* C18: the completion handler of a wait for which cancel() was called before
\* the handler ran is a no-op, also when the timer had expired and the handler
\* was already queued at the time of the cancel(): the callback is not
\* invoked and attemptNumber is not incremented.
C18_CancelRaceNoOp ==
    [][\A k \in Ops :
          (k \in cancelRequested /\ opState'[k] # opState[k]) =>
              (opState'[k] = "dropped" /\ attemptNumber' = attemptNumber)]_vars

\* what C19 says of a step and of a state
DelayBounded == delay <= maxDelay

DelayStep ==
    /\ (delay' < delay) => (lastOp' = "reset")
    /\ (delay' # delay) => (lastOp' \in {"retry", "increaseDelay", "reset"})
    /\ (lastOp' = "getDelay") => (delay' = delay)

-----------------------------------------------------------------------------
\* Further claims about DOSGuard (specification SpecGuard)

\* C20: under every interleaving of tasks calling add, request and clear, a
\* call of add or request for a non-whitelisted ip whose own update left the
\* byte or request counter of the ip over its limit returns false.
C20_OwnUpdateOverLimitReturnsFalse ==
    [][\A t \in Tasks :
          (taskPc[t] \in {"add", "request"} /\ taskPc'[t] = "idle" /\ taskOver[t]) =>
              (gRet'.op = taskPc[t] /\ gRet'.val = FALSE)]_vars

=============================================================================
